---------------------------- MODULE Spec2Model ----------------------------
(***************************************************************************)
(* A model of create-q-base-web (src/src/index.ts): the name normalizer,   *)
(* the package-name predicate, the command rewriter, the package-manager   *)
(* resolver and init(), the scaffolding run over a small file system.      *)
(*                                                                         *)
(* JavaScript strings are TLA+ strings; the string functions of the code   *)
(* (trim, replace, split, startsWith, the regular expressions) are         *)
(* operators that compute character by character what the code computes.   *)
(***************************************************************************)
EXTENDS Naturals, Sequences, FiniteSets, TLC

VARIABLES
  hIn,      \* pure-function specifications: the argument(s) of the call
  hOut      \* pure-function specifications: what the calls returned so far

hvars == <<hIn, hOut>>

VARIABLES
  argv,        \* the parsed command line: dir (argv._[0]), template, overwrite, help
  env,         \* cwd, npm_config_user_agent, and which catalog is compiled in
  fs,          \* the file system: absolute path -> node
  pc,          \* where init() stands
  pkgInfo,     \* init's pkgInfo
  targetDir,   \* init's targetDir
  packageName, \* init's packageName
  framework,   \* the framework the first select returned
  template,    \* init's template
  root,        \* init's root
  files,       \* the template entries the copy loop has still to write
  exitCode,    \* the status the process ends with
  logged,      \* what console.error has printed
  spawned,     \* the child processes started: the words of each
  log          \* history: the prompts and their answers, the file system calls

ivars == <<argv, env, fs, pc, pkgInfo, targetDir, packageName, framework,
           template, root, files, exitCode, logged, spawned, log>>

vars == <<hIn, hOut, argv, env, fs, pc, pkgInfo, targetDir, packageName,
          framework, template, root, files, exitCode, logged, spawned, log>>

-----------------------------------------------------------------------------
(* Bounds of the model.                                                    *)

\* longest argument of formatTargetDir that is enumerated
MaxDirLen == 5
\* longest argument of isValidPackageName / toValidPackageName enumerated
MaxNameLen == 4

\* the calls of emptyDir and isEmpty made in a row on one path
MaxCalls == 3

-----------------------------------------------------------------------------
(* Strings.                                                                *)

Ch(s, i) == SubSeq(s, i, i)

Drop(s, n) == SubSeq(s, n + 1, Len(s))

Take(s, n) == SubSeq(s, 1, n)

StartsWith(s, p) == Len(s) >= Len(p) /\ Take(s, Len(p)) = p

EndsWith(s, p) == Len(s) >= Len(p) /\ Drop(s, Len(s) - Len(p)) = p

\* every string over alphabet A of length at most n
RECURSIVE StringsUpTo(_, _)
StringsUpTo(A, n) ==
  IF n = 0 THEN {""}
  ELSE LET S == StringsUpTo(A, n - 1)
       IN  S \cup {s \o c : s \in S, c \in A}

\* the white space characters of the model (a subset of what \s and trim()
\* treat as white space)
WhiteSpace == {" ", "\t"}

RECURSIVE TrimStart(_)
TrimStart(s) ==
  IF Len(s) > 0 /\ Ch(s, 1) \in WhiteSpace THEN TrimStart(Drop(s, 1)) ELSE s

RECURSIVE TrimEnd(_)
TrimEnd(s) ==
  IF Len(s) > 0 /\ Ch(s, Len(s)) \in WhiteSpace
  THEN TrimEnd(Take(s, Len(s) - 1))
  ELSE s

\* String.prototype.trim
Trim(s) == TrimEnd(TrimStart(s))

\* s.replace(/\/+$/g, ''): the one run of slashes that ends the string
RECURSIVE StripTrailingSlashes(_)
StripTrailingSlashes(s) ==
  IF Len(s) > 0 /\ Ch(s, Len(s)) = "/"
  THEN StripTrailingSlashes(Take(s, Len(s) - 1))
  ELSE s

-----------------------------------------------------------------------------
(* Values                                                                  *)

\* PkgInfo | undefined. An absent pkgInfo has defined = FALSE; a version that
\* is undefined (no '/' in the user agent's first token) has hasVersion = FALSE.
NoPkgInfo == [defined |-> FALSE, name |-> "", hasVersion |-> FALSE, version |-> ""]

PkgInfo(name, version) ==
  [defined |-> TRUE, name |-> name, hasVersion |-> TRUE, version |-> version]

\* the nodes of the file system
DirNode == [kind |-> "dir", data |-> "", name |-> ""]

FileNode(data) == [kind |-> "file", data |-> data, name |-> ""]

\* a package.json whose name field is name
JsonNode(name) == [kind |-> "file", data |-> "package.json", name |-> name]

-----------------------------------------------------------------------------
(* formatTargetDir                                                         *)

formatTargetDir(dir) == StripTrailingSlashes(Trim(dir))

\* init() is not running: the specifications of the functions taken alone
NotRunning ==
  /\ argv = [dir |-> "", template |-> "", overwrite |-> FALSE, help |-> FALSE]
  /\ env = [cwd |-> "/", userAgent |-> "", delegate |-> ""]
  /\ pc = "idle"
  /\ pkgInfo = NoPkgInfo
  /\ targetDir = ""
  /\ packageName = ""
  /\ framework = ""
  /\ template = ""
  /\ root = ""
  /\ files = <<>>
  /\ exitCode = 0
  /\ logged = <<>>
  /\ spawned = <<>>
  /\ log = <<>>

\* ... and nothing but the root is on the file system
Idle ==
  /\ NotRunning
  /\ fs = [p \in {"/"} |-> DirNode]

DirAlphabet == {"a", "/", " ", "\t"}

FormatInit ==
  /\ hIn \in StringsUpTo(DirAlphabet, MaxDirLen)
  /\ hOut = <<>>
  /\ Idle

\* formatTargetDir(raw), then formatTargetDir of that result
FormatCall ==
  /\ Len(hOut) < 2
  /\ hOut' = Append(hOut,
                    formatTargetDir(IF hOut = <<>> THEN hIn ELSE hOut[Len(hOut)]))
  /\ UNCHANGED <<hIn, ivars>>

-----------------------------------------------------------------------------
(* isValidPackageName / toValidPackageName                                 *)

LowerSeq == <<"a", "b", "c", "d", "e", "f", "g", "h", "i", "j", "k", "l", "m",
              "n", "o", "p", "q", "r", "s", "t", "u", "v", "w", "x", "y", "z">>

UpperSeq == <<"A", "B", "C", "D", "E", "F", "G", "H", "I", "J", "K", "L", "M",
              "N", "O", "P", "Q", "R", "S", "T", "U", "V", "W", "X", "Y", "Z">>

Lower == {LowerSeq[i] : i \in DOMAIN LowerSeq}

Upper == {UpperSeq[i] : i \in DOMAIN UpperSeq}

\* \d
Digit == {"0", "1", "2", "3", "4", "5", "6", "7", "8", "9"}

\* the character classes of the regular expression of isValidPackageName
\* [a-z\d\-*~]
ScopeFirstClass == Lower \cup Digit \cup {"-", "*", "~"}

\* [a-z\d\-*._~]
ScopeRestClass == Lower \cup Digit \cup {"-", "*", ".", "_", "~"}

\* [a-z\d\-._~]
NameRestClass == Lower \cup Digit \cup {"-", ".", "_", "~"}

\* a plausible slip: the name may start like it continues (dot, underscore)
NameFirstClass_asRest == NameRestClass

\* [a-z\d\-~]
NameFirstClass == Lower \cup Digit \cup {"-", "~"}

\* One step of the match of
\*   /^(?:@[a-z\d\-*~][a-z\d\-*._~]*\/)?[a-z\d\-~][a-z\d\-._~]*$/
\* q is where the match stands: "start", "scopeFirst" (after '@'),
\* "scopeRest", "nameFirst" (after '/'), "nameRest", or "fail". '@' is in no
\* class of the name and '/' in no class at all, so the match never backtracks.
PackageNameStep(q, c) ==
  CASE q = "start" ->
         IF c = "@" THEN "scopeFirst"
         ELSE IF c \in NameFirstClass THEN "nameRest" ELSE "fail"
    [] q = "scopeFirst" -> IF c \in ScopeFirstClass THEN "scopeRest" ELSE "fail"
    [] q = "scopeRest" ->
         IF c = "/" THEN "nameFirst"
         ELSE IF c \in ScopeRestClass THEN "scopeRest" ELSE "fail"
    [] q = "nameFirst" -> IF c \in NameFirstClass THEN "nameRest" ELSE "fail"
    [] q = "nameRest" -> IF c \in NameRestClass THEN "nameRest" ELSE "fail"
    [] OTHER -> "fail"

RECURSIVE PackageNameMatch(_, _)
PackageNameMatch(q, s) ==
  IF s = "" THEN q
  ELSE PackageNameMatch(PackageNameStep(q, Ch(s, 1)), Drop(s, 1))

isValidPackageName(projectName) ==
  PackageNameMatch("start", projectName) = "nameRest"

ToLowerChar(c) ==
  IF c \in Upper
  THEN LowerSeq[CHOOSE i \in DOMAIN UpperSeq : UpperSeq[i] = c]
  ELSE c

\* String.prototype.toLowerCase
RECURSIVE ToLowerCase(_)
ToLowerCase(s) ==
  IF s = "" THEN "" ELSE ToLowerChar(Ch(s, 1)) \o ToLowerCase(Drop(s, 1))

\* the rest of s after its leading run of characters that match; a character
\* matches when (it is in class) differs from negated
RECURSIVE SkipRun(_, _, _)
SkipRun(s, class, negated) ==
  IF s # "" /\ ((Ch(s, 1) \in class) # negated)
  THEN SkipRun(Drop(s, 1), class, negated)
  ELSE s

\* s.replace(/[class]+/g, rep), or /[^class]+/g when negated
RECURSIVE ReplaceRuns(_, _, _, _)
ReplaceRuns(s, class, negated, rep) ==
  IF s = "" THEN ""
  ELSE IF (Ch(s, 1) \in class) # negated
       THEN rep \o ReplaceRuns(SkipRun(s, class, negated), class, negated, rep)
       ELSE Ch(s, 1) \o ReplaceRuns(Drop(s, 1), class, negated, rep)

\* s.replace(/^[._]/, '')
StripLeadingDot(s) ==
  IF s # "" /\ Ch(s, 1) \in {".", "_"} THEN Drop(s, 1) ELSE s

\* the class that the last replace of toValidPackageName negates: [^a-z\d\-~]
KeptClass == Lower \cup Digit \cup {"-", "~"}

\* a plausible slip: the last replace keeps the dot and the underscore
toValidPackageName_keepDots(projectName) ==
  ReplaceRuns(
    StripLeadingDot(
      ReplaceRuns(ToLowerCase(Trim(projectName)), WhiteSpace, FALSE, "-")),
    NameRestClass, TRUE, "-")

toValidPackageName(projectName) ==
  ReplaceRuns(
    StripLeadingDot(
      ReplaceRuns(ToLowerCase(Trim(projectName)), WhiteSpace, FALSE, "-")),
    KeptClass, TRUE, "-")

NameAlphabet == {"a", "Z", "7", "-", "~", ".", "_", "*", "@", "/", " ", "!"}

NoCall == [called |-> "none", name |-> "", valid |-> FALSE]

PackageInit ==
  /\ hIn \in StringsUpTo(NameAlphabet, MaxNameLen)
  /\ hOut = NoCall
  /\ Idle

\* isValidPackageName(raw)
IsValidCall ==
  /\ hOut.called = "none"
  /\ hOut' = [called |-> "isValidPackageName", name |-> hIn,
              valid |-> isValidPackageName(hIn)]
  /\ UNCHANGED <<hIn, ivars>>

\* toValidPackageName(raw)
ToValidCall ==
  /\ hOut.called = "none"
  /\ hOut' = [called |-> "toValidPackageName",
              name |-> toValidPackageName(hIn), valid |-> FALSE]
  /\ UNCHANGED <<hIn, ivars>>

\* isValidPackageName(toValidPackageName(raw))
IsValidOfToValidCall ==
  /\ hOut.called = "toValidPackageName"
  /\ hOut' = [hOut EXCEPT !.called = "isValidPackageName(toValidPackageName)",
                          !.valid = isValidPackageName(hOut.name)]
  /\ UNCHANGED <<hIn, ivars>>

-----------------------------------------------------------------------------
(* pkgFromUserAgent / getFullCustomCommand                                 *)

\* the place of the first occurrence of pat in s, 0 when there is none
IndexOf(s, pat) ==
  LET at == {i \in 1..(Len(s) + 1) :
               i + Len(pat) - 1 <= Len(s) /\ SubSeq(s, i, i + Len(pat) - 1) = pat}
  IN  IF at = {} THEN 0 ELSE CHOOSE i \in at : \A j \in at : i <= j

\* s.replace(pat, () => rep) with a string pattern: the first occurrence only
ReplaceFirst(s, pat, rep) ==
  LET i == IndexOf(s, pat)
  IN  IF i = 0 THEN s ELSE Take(s, i - 1) \o rep \o Drop(s, i - 1 + Len(pat))

\* s.split(sep) with a one-character separator
RECURSIVE Split(_, _)
Split(s, sep) ==
  LET i == IndexOf(s, sep)
  IN  IF i = 0 THEN <<s>> ELSE <<Take(s, i - 1)>> \o Split(Drop(s, i), sep)

\* userAgent = "" stands for an undefined or empty npm_config_user_agent
pkgFromUserAgent(userAgent) ==
  IF userAgent = "" THEN NoPkgInfo
  ELSE LET pkgSpec == Split(userAgent, " ")[1]
           pkgSpecArr == Split(pkgSpec, "/")
       IN  [defined |-> TRUE,
            name |-> pkgSpecArr[1],
            hasVersion |-> Len(pkgSpecArr) >= 2,
            version |-> IF Len(pkgSpecArr) >= 2 THEN pkgSpecArr[2] ELSE ""]

\* pkgInfo ? pkgInfo.name : 'npm'
PkgManagerOf(info) == IF info.defined THEN info.name ELSE "npm"

\* pkgManager === 'yarn' && pkgInfo?.version.startsWith('1.') reads a property
\* of undefined, and throws, when the manager is yarn and has no version
IsYarn1Throws(info) ==
  PkgManagerOf(info) = "yarn" /\ ~info.hasVersion

IsYarn1(info) ==
  PkgManagerOf(info) = "yarn" /\ StartsWith(info.version, "1.")

\* .replace(/^npm create (?:-- )?/, () => ...)
ReplaceCreate(customCommand, pkgManager) ==
  IF ~StartsWith(customCommand, "npm create ") THEN customCommand
  ELSE LET matched == IF StartsWith(customCommand, "npm create -- ")
                      THEN "npm create -- " ELSE "npm create "
           with == IF pkgManager = "bun" THEN "bun x create-"
                   ELSE IF pkgManager = "pnpm" THEN "pnpm create "
                   ELSE IF StartsWith(customCommand, "npm create -- ")
                        THEN pkgManager \o " create -- "
                        ELSE pkgManager \o " create "
       IN  with \o Drop(customCommand, Len(matched))

\* .replace('@latest', () => (isYarn1 ? '' : '@latest'))
ReplaceLatest(s, isYarn1) ==
  ReplaceFirst(s, "@latest", IF isYarn1 THEN "" ELSE "@latest")

\* .replace(/^npm exec/, () => ...)
ReplaceExec(s, pkgManager, isYarn1) ==
  IF ~StartsWith(s, "npm exec") THEN s
  ELSE (IF pkgManager = "pnpm" THEN "pnpm dlx"
        ELSE IF pkgManager = "yarn" /\ ~isYarn1 THEN "yarn dlx"
        ELSE IF pkgManager = "bun" THEN "bun x"
        ELSE "npm exec") \o Drop(s, Len("npm exec"))

\* [threw |-> TRUE] when the call throws a TypeError, else the string returned
getFullCustomCommand(customCommand, info) ==
  IF IsYarn1Throws(info) THEN [threw |-> TRUE, value |-> ""]
  ELSE LET pkgManager == PkgManagerOf(info)
           isYarn1 == IsYarn1(info)
       IN  [threw |-> FALSE,
            value |-> ReplaceExec(
                        ReplaceLatest(ReplaceCreate(customCommand, pkgManager),
                                      isYarn1),
                        pkgManager, isYarn1)]

\* const [command, ...args] = fullCustomCommand.split(' ')
\* args.map((arg) => arg.replace('TARGET_DIR', () => targetDir))
\* the result is <<command>> followed by the replaced arguments
SpawnArgv(fullCustomCommand, dir) ==
  LET parts == Split(fullCustomCommand, " ")
  IN  [i \in 1..Len(parts) |->
         IF i = 1 THEN parts[1] ELSE ReplaceFirst(parts[i], "TARGET_DIR", dir)]

\* the generic commands enumerated: a prefix, a package, arguments
CommandPrefixes == {"npm create ", "npm create -- ", "npm exec "}

CommandPackages == {"vite", "vite@latest", "@angular/cli@latest"}

CommandTails ==
  {"", " TARGET_DIR", " TARGET_DIR --template vue", " --dir=TARGET_DIR",
   " TARGET_DIR/TARGET_DIR", " plugin@latest TARGET_DIR"}

Commands ==
  {p \o k \o t : p \in CommandPrefixes, k \in CommandPackages, t \in CommandTails}

PkgInfos ==
  {NoPkgInfo, PkgInfo("pnpm", "8.6.0"), PkgInfo("yarn", "1.22.19"),
   PkgInfo("yarn", "4.1.0"), PkgInfo("bun", "1.0.0"), PkgInfo("npm", "10.2.0"),
   PkgInfo("cnpm", "9.2.0")}

TargetDirs == {"my-app", "my app", "."}

CommandInit ==
  /\ hIn \in [customCommand : Commands, info : PkgInfos, dir : TargetDirs]
  /\ hOut = [called |-> "none", full |-> "", argv |-> <<>>]
  /\ Idle

\* getFullCustomCommand(customCommand, pkgInfo)
RewriteCall ==
  /\ hOut.called = "none"
  /\ LET r == getFullCustomCommand(hIn.customCommand, hIn.info)
     IN  hOut' = [called |-> IF r.threw THEN "threw" ELSE "getFullCustomCommand",
                  full |-> r.value, argv |-> <<>>]
  /\ UNCHANGED <<hIn, ivars>>

\* the split of the rewritten command and the TARGET_DIR substitution
SubstituteCall ==
  /\ hOut.called = "getFullCustomCommand"
  /\ hOut' = [hOut EXCEPT !.called = "substituted",
                          !.argv = SpawnArgv(hOut.full, hIn.dir)]
  /\ UNCHANGED <<hIn, ivars>>

\* --- pkgFromUserAgent taken alone, and getFullCustomCommand on its result

\* values of npm_config_user_agent: a first token with or without a name, a
\* '/' and a version, alone or followed by more tokens, or after a space
AgentNames == {"", "npm", "pnpm", "yarn", "bun"}

AgentVersions == {"", "/", "/1.22.19", "/4.1.0", "/8.6.0/x"}

AgentTails == {"", " ", " npm/? node/v18.16.0 linux x64"}

AgentStrings ==
  {n \o v \o t : n \in AgentNames, v \in AgentVersions, t \in AgentTails}
    \cup {" yarn/1.22.19"}

AgentCommands == {"npm create vite@latest TARGET_DIR", "npm exec degit TARGET_DIR"}

UserAgentInit ==
  /\ hIn \in [userAgent : AgentStrings, customCommand : AgentCommands]
  /\ hOut = [called |-> "none", info |-> NoPkgInfo, full |-> ""]
  /\ Idle

\* pkgFromUserAgent(process.env.npm_config_user_agent)
ResolveCall ==
  /\ hOut.called = "none"
  /\ hOut' = [hOut EXCEPT !.called = "pkgFromUserAgent",
                          !.info = pkgFromUserAgent(hIn.userAgent)]
  /\ UNCHANGED <<hIn, ivars>>

\* getFullCustomCommand(customCommand, pkgInfo) on what was returned
FullCommandCall ==
  /\ hOut.called = "pkgFromUserAgent"
  /\ LET r == getFullCustomCommand(hIn.customCommand, hOut.info)
     IN  hOut' = [hOut EXCEPT !.called = IF r.threw THEN "threw"
                                         ELSE "getFullCustomCommand",
                              !.full = r.value]
  /\ UNCHANGED <<hIn, ivars>>

-----------------------------------------------------------------------------
(* node:path, POSIX                                                        *)

\* the segments of a path with '.' and empty segments dropped and '..'
\* resolved against the segments before it (at the root '..' stays put)
RECURSIVE NormalizeSegments(_, _)
NormalizeSegments(segs, acc) ==
  IF segs = <<>> THEN acc
  ELSE LET h == Head(segs)
       IN  NormalizeSegments(
             Tail(segs),
             IF h = "" \/ h = "." THEN acc
             ELSE IF h = ".."
                  THEN (IF acc = <<>> THEN acc ELSE SubSeq(acc, 1, Len(acc) - 1))
                  ELSE Append(acc, h))

RECURSIVE JoinSegments(_)
JoinSegments(segs) ==
  IF segs = <<>> THEN "" ELSE "/" \o Head(segs) \o JoinSegments(Tail(segs))

\* the normal form of an absolute path
NormalizeAbsolute(p) ==
  LET segs == NormalizeSegments(Split(p, "/"), <<>>)
  IN  IF segs = <<>> THEN "/" ELSE JoinSegments(segs)

\* path.join(a, b) for an absolute a and a non-empty b: the two are glued with
\* a '/' and normalized, whether or not b starts with a '/'
PathJoin(a, b) == NormalizeAbsolute(a \o "/" \o b)

\* path.resolve(base, p) for an absolute base: an absolute p replaces base
PathResolve(base, p) ==
  NormalizeAbsolute(IF StartsWith(p, "/") THEN p ELSE base \o "/" \o p)

\* path.basename of a normalized absolute path
PathBasename(p) ==
  LET segs == NormalizeSegments(Split(p, "/"), <<>>)
  IN  IF segs = <<>> THEN "" ELSE segs[Len(segs)]

\* the directory that holds a normalized absolute path
PathDirname(p) ==
  LET segs == NormalizeSegments(Split(p, "/"), <<>>)
  IN  IF Len(segs) <= 1 THEN "/" ELSE JoinSegments(SubSeq(segs, 1, Len(segs) - 1))

\* p is d or lies below d
IsUnder(p, d) == p = d \/ StartsWith(p, IF d = "/" THEN "/" ELSE d \o "/")

\* p and the directories above it, the root excluded
RECURSIVE Ancestors(_)
Ancestors(p) == IF p = "/" THEN {} ELSE {p} \cup Ancestors(PathDirname(p))

-----------------------------------------------------------------------------
(* node:fs over the model's file system                                    *)

\* fs.existsSync
ExistsSync(f, p) == p \in DOMAIN f

\* fs.readdirSync of a directory: the names of its entries
ReaddirSync(f, p) ==
  {PathBasename(q) : q \in {k \in DOMAIN f : k # p /\ PathDirname(k) = p}}

\* fs.readdirSync throws on what is not a directory
ReaddirThrows(f, p) == ~ExistsSync(f, p) \/ f[p].kind # "dir"

\* fs.rmSync(p, {recursive: true, force: true})
RmSync(f, p) == [k \in {q \in DOMAIN f : ~IsUnder(q, p)} |-> f[k]]

\* fs.mkdirSync(p, {recursive: true}) throws when p or a directory above it
\* exists and is not a directory
MkdirThrows(f, p) ==
  \E a \in Ancestors(p) : ExistsSync(f, a) /\ f[a].kind # "dir"

MkdirSync(f, p) ==
  [k \in DOMAIN f \cup Ancestors(p) |-> IF k \in DOMAIN f THEN f[k] ELSE DirNode]

\* fs.writeFileSync / fs.copyFileSync throw when the destination is a
\* directory or the directory that is to hold it is missing
WriteFileThrows(f, p) ==
  \/ ExistsSync(f, p) /\ f[p].kind = "dir"
  \/ ~ExistsSync(f, PathDirname(p))
  \/ f[PathDirname(p)].kind # "dir"

WriteFile(f, p, node) ==
  [k \in DOMAIN f \cup {p} |-> IF k = p THEN node ELSE f[k]]

-----------------------------------------------------------------------------
(* The catalog                                                             *)

\* FRAMEWORKS. The catalog as shipped has no customCommand (delegate = "");
\* FrameworkVariant allows one, and delegate # "" is the catalog with that
\* customCommand on the react-ts variant.
FRAMEWORKS(delegate) ==
  << [name |-> "vue",
      variants |-> << [name |-> "vue", customCommand |-> ""] >>],
     [name |-> "react",
      variants |-> << [name |-> "react-ts", customCommand |-> delegate] >>] >>

\* FRAMEWORKS.flatMap((f) => f.variants)
Variants(delegate) ==
  LET F == FRAMEWORKS(delegate)
  IN  {F[i].variants[j] : i \in DOMAIN F, j \in {1}}

TEMPLATES == {v.name : v \in Variants("")}

\* the variants of the framework named f
VariantsOf(delegate, f) ==
  LET F == FRAMEWORKS(delegate)
  IN  {F[i].variants[j] : i \in {k \in DOMAIN F : F[k].name = f}, j \in {1}}

\* FRAMEWORKS.flatMap((f) => f.variants).find((v) => v.name === template)
\* ?? {}, its customCommand ("" when undefined)
CustomCommandOf(delegate, t) ==
  LET found == {v \in Variants(delegate) : v.name = t}
  IN  IF found = {} THEN "" ELSE (CHOOSE v \in found : TRUE).customCommand

renameFiles(file) ==
  IF file = "_gitignore" THEN ".gitignore"
  ELSE IF file = "_env" THEN ".env"
  ELSE file

defaultTargetDir == "q-base-web"

\* the entries of a template directory, as fs.readdirSync lists them, and the
\* tree below them: relative path -> kind
TemplateTree ==
  [p \in {"_env", "_gitignore", "package.json", "src", "src/utils",
          "src/utils/request.js"} |->
     IF p \in {"src", "src/utils"} THEN "dir" ELSE "file"]

TemplateEntries == <<"_env", "_gitignore", "package.json", "src">>

-----------------------------------------------------------------------------
(* init()                                                                  *)

Event(op, path, info) == [op |-> op, path |-> path, info |-> info]

ArgDirs == {"", "app", "/app", ".", "My App", "/"}

ArgTemplates == {"", "vue", "react-ts", "svelte"}

UserAgents == {"", "pnpm/8.6.0 npm/? node/v18.16.0", "yarn/1.22.19 npm/? node/v18.16.0", "yarn"}

DelegateCommands == {"", "npm create vite@latest TARGET_DIR"}

\* what the project-name prompt may be given
ProjectNameAnswers == {"", "app", "/app", " / "}

\* what the package-name prompt may be given
PackageNameAnswers == {"", "my-app", "@scope/my-app", "My App"}

\* the nodes of directory d in one of its initial conditions
Content(d, kind) ==
  CASE kind = "absent" -> <<>>
    [] kind = "empty" -> d :> DirNode
    [] kind = "git" -> (d :> DirNode) @@ ((d \o "/.git") :> DirNode)
    [] kind = "plain" -> (d :> DirNode) @@ ((d \o "/old.txt") :> FileNode("old"))
    [] kind = "used" ->
         (d :> DirNode) @@ ((d \o "/.git") :> DirNode)
           @@ ((d \o "/.git/HEAD") :> FileNode("ref"))
           @@ ((d \o "/src") :> DirNode)
           @@ ((d \o "/src/old.js") :> FileNode("old"))
    [] kind = "file" -> d :> FileNode("old")

InitialFileSystems ==
  {(("/" :> DirNode) @@ ("/w" :> DirNode)) @@ Content("/app", a) @@ Content("/w/app", b) :
     a \in {"absent", "plain"},
     b \in {"absent", "empty", "git", "plain", "used", "file"}}

Init ==
  /\ hIn = ""
  /\ hOut = <<>>
  /\ argv \in [dir : ArgDirs, template : ArgTemplates,
               overwrite : BOOLEAN, help : BOOLEAN]
  /\ env \in [cwd : {"/w"}, userAgent : UserAgents, delegate : DelegateCommands]
  /\ fs \in InitialFileSystems
  /\ pc = "start"
  /\ pkgInfo = NoPkgInfo
  /\ targetDir = ""
  /\ packageName = ""
  /\ framework = ""
  /\ template = ""
  /\ root = ""
  /\ files = <<>>
  /\ exitCode = 0
  /\ logged = <<>>
  /\ spawned = <<>>
  /\ log = <<>>

\* an exception leaves init(): the promise rejects
Throw(what) ==
  /\ pc' = "threw"
  /\ log' = Append(log, Event("throw", "", what))

\* a plausible slip: cancel() without the return, and init() goes on
Cancel_noReturn(prompt) ==
  /\ pc' = "makeRoot"
  /\ log' = Append(log, Event("cancel", prompt, ""))

\* return cancel()
Cancel(prompt) ==
  /\ pc' = "cancelled"
  /\ log' = Append(log, Event("cancel", prompt, ""))

\* lines 100-115: the arguments, --help, pkgFromUserAgent, targetDir
Start ==
  /\ pc = "start"
  /\ IF argv.help
     THEN /\ pc' = "done"
          /\ log' = Append(log, Event("console.log", "", "helpMessage"))
          /\ UNCHANGED <<pkgInfo, targetDir>>
     ELSE /\ pkgInfo' = pkgFromUserAgent(env.userAgent)
          /\ targetDir' = IF argv.dir # "" THEN formatTargetDir(argv.dir) ELSE ""
          /\ pc' = IF targetDir' = "" THEN "promptProjectName" ELSE "resolveConflict"
          /\ UNCHANGED log
  /\ UNCHANGED <<hIn, hOut, argv, env, fs, packageName, framework, template, root, files,
                 exitCode, logged, spawned>>

\* the validate callback of the project-name prompt: undefined (TRUE) or a message
ValidateProjectName(value) == Len(value) = 0 \/ Len(formatTargetDir(value)) > 0

\* prompts.text: what it resolves to for the text typed, once validate has
\* let it through: the defaultValue for an empty text
TextValue(value, defaultValue) == IF value = "" THEN defaultValue ELSE value

\* lines 116-129
PromptProjectName ==
  /\ pc = "promptProjectName"
  /\ \/ Cancel("projectName") /\ UNCHANGED targetDir
     \/ \E value \in ProjectNameAnswers :
          /\ ValidateProjectName(value)
          /\ targetDir' = formatTargetDir(TextValue(value, defaultTargetDir))
          /\ pc' = "resolveConflict"
          /\ log' = Append(log, Event("answer", "projectName", value))
  /\ UNCHANGED <<hIn, hOut, argv, env, fs, pkgInfo, packageName, framework, template, root,
                 files, exitCode, logged, spawned>>

\* isEmpty(path), given what fs.readdirSync returned
isEmpty(entries) == entries = {} \/ entries = {".git"}

\* a plausible slip: every entry is skipped, not only .git
emptyDir_skipsAll(f, dir) == f

\* fs.rmSync(path.resolve(dir, file), ...) for each file of entries
RECURSIVE RmEntries(_, _, _)
RmEntries(f, dir, entries) ==
  IF entries = {} THEN f
  ELSE LET file == CHOOSE e \in entries : TRUE
       IN  RmEntries(RmSync(f, PathResolve(dir, file)), dir, entries \ {file})

\* a plausible slip: the loop has no `continue` for .git
emptyDir_removesGit(f, dir) ==
  IF ~ExistsSync(f, dir) THEN f
  ELSE RmEntries(f, dir, ReaddirSync(f, dir))

\* emptyDir(dir) run to its end
emptyDir(f, dir) ==
  IF ~ExistsSync(f, dir) THEN f
  ELSE RmEntries(f, dir, ReaddirSync(f, dir) \ {".git"})

\* emptyDir(dir) when an fs.rmSync of the loop throws: the entries removed
\* were removed before it
emptyDirUpTo(f, dir, removed) == RmEntries(f, dir, removed)

\* --- isEmpty and emptyDir taken alone, over directories of every content

\* what may lie at d/.git: nothing, a directory (empty or not), a file
GitStates(d) ==
  { <<>>,
    (d \o "/.git") :> DirNode,
    ((d \o "/.git") :> DirNode) @@ ((d \o "/.git/HEAD") :> FileNode("ref")),
    (d \o "/.git") :> FileNode("gitdir") }

\* what may lie at d/src: nothing, a directory that may hold a file and a
\* .git of its own
SrcStates(d) ==
  { <<>>,
    (d \o "/src") :> DirNode,
    ((d \o "/src") :> DirNode) @@ ((d \o "/src/b.js") :> FileNode("b")),
    ((d \o "/src") :> DirNode) @@ ((d \o "/src/.git") :> DirNode),
    ((d \o "/src") :> DirNode) @@ ((d \o "/src/b.js") :> FileNode("b"))
      @@ ((d \o "/src/.git") :> DirNode) }

\* a file that may lie at p
MayHold(p, data) == { <<>>, p :> FileNode(data) }

\* the file systems: /d2, a neighbour, and /d, missing or with any content
DirectoryStates ==
  LET around == (("/" :> DirNode) @@ ("/d2" :> DirNode))
                  @@ ("/d2/keep" :> FileNode("keep"))
  IN  {around} \cup
      { ((((around @@ ("/d" :> DirNode)) @@ g) @@ i) @@ a) @@ s :
          g \in GitStates("/d"), i \in MayHold("/d/.gitignore", "ignore"),
          a \in MayHold("/d/a.txt", "a"), s \in SrcStates("/d") }

\* the paths emptyDir and isEmpty are given
DirectoryPaths == {"/d", "/d/src", "/d/a.txt", "/missing"}

\* one call, the file system before and after it, and how it ended
Call(op, before, after, threw, result) ==
  [op |-> op, before |-> before, after |-> after, threw |-> threw,
   result |-> result]

EmptyDirInit ==
  /\ hIn \in DirectoryPaths
  /\ hOut = <<>>
  /\ NotRunning
  /\ fs \in DirectoryStates

\* emptyDir(hIn): it returns, or fs.readdirSync throws (hIn is a file), or
\* an fs.rmSync of the loop throws after some entries were removed
EmptyDirCall ==
  /\ Len(hOut) < MaxCalls
  /\ IF ExistsSync(fs, hIn) /\ ReaddirThrows(fs, hIn)
     THEN /\ hOut' = Append(hOut, Call("emptyDir", fs, fs, TRUE, FALSE))
          /\ UNCHANGED fs
     ELSE \/ /\ fs' = emptyDir(fs, hIn)
             /\ hOut' = Append(hOut, Call("emptyDir", fs, fs', FALSE, FALSE))
          \/ /\ ExistsSync(fs, hIn)
             /\ \E failed \in ReaddirSync(fs, hIn) \ {".git"} :
                  \E removed \in SUBSET (ReaddirSync(fs, hIn) \ {".git", failed}) :
                    /\ fs' = emptyDirUpTo(fs, hIn, removed)
                    /\ hOut' = Append(hOut, Call("emptyDir", fs, fs', TRUE, FALSE))
  /\ UNCHANGED <<hIn, argv, env, pc, pkgInfo, targetDir, packageName, framework,
                 template, root, files, exitCode, logged, spawned, log>>

\* isEmpty(hIn): fs.readdirSync throws on a missing path and on a file
IsEmptyCall ==
  /\ Len(hOut) < MaxCalls
  /\ IF ReaddirThrows(fs, hIn)
     THEN hOut' = Append(hOut, Call("isEmpty", fs, fs, TRUE, FALSE))
     ELSE hOut' = Append(hOut, Call("isEmpty", fs, fs, FALSE,
                                    isEmpty(ReaddirSync(fs, hIn))))
  /\ UNCHANGED <<hIn, ivars>>

\* the directory that fs.existsSync(targetDir), isEmpty(targetDir) and
\* emptyDir(targetDir) act on: a relative path is taken from process.cwd()
Inspected == PathResolve(env.cwd, targetDir)

\* lines 131-133: existsSync, isEmpty, --overwrite
ResolveConflict ==
  /\ pc = "resolveConflict"
  /\ IF ~ExistsSync(fs, Inspected)
     THEN /\ pc' = "resolvePackageName"
          /\ log' = Append(log, Event("classify", Inspected, "Absent"))
          /\ UNCHANGED fs
     ELSE IF ReaddirThrows(fs, Inspected)
     THEN /\ pc' = "threw"
          /\ log' = Append(log, Event("throw", Inspected, "fs.readdirSync"))
          /\ UNCHANGED fs
     ELSE IF isEmpty(ReaddirSync(fs, Inspected))
     THEN /\ pc' = "resolvePackageName"
          /\ log' = Append(log, Event("classify", Inspected, "Empty"))
          /\ UNCHANGED fs
     ELSE IF argv.overwrite
     THEN \/ /\ fs' = emptyDir(fs, Inspected)
             /\ pc' = "resolvePackageName"
             /\ log' = log \o << Event("classify", Inspected, "NonEmpty"),
                                 Event("emptyDir", Inspected, "--overwrite") >>
          \/ \E failed \in ReaddirSync(fs, Inspected) \ {".git"} :
               \E removed \in SUBSET (ReaddirSync(fs, Inspected) \ {".git", failed}) :
                 /\ fs' = emptyDirUpTo(fs, Inspected, removed)
                 /\ pc' = "threw"
                 /\ log' = log \o << Event("classify", Inspected, "NonEmpty"),
                                     Event("emptyDir", Inspected, "--overwrite"),
                                     Event("throw", Inspected, "fs.rmSync") >>
     ELSE /\ pc' = "promptOverwrite"
          /\ log' = Append(log, Event("classify", Inspected, "NonEmpty"))
          /\ UNCHANGED fs
  /\ UNCHANGED <<hIn, hOut, argv, env, pkgInfo, targetDir, packageName, framework, template,
                 root, files, exitCode, logged, spawned>>

\* lines 134-163: the select of the conflict prompt and the switch on it
PromptOverwrite ==
  /\ pc = "promptOverwrite"
  /\ \/ Cancel("overwrite") /\ UNCHANGED fs
     \/ \E overwrite \in {"no", "yes", "ignore"} :
          CASE overwrite = "yes" ->
                 \/ /\ fs' = emptyDir(fs, Inspected)
                    /\ pc' = "resolvePackageName"
                    /\ log' = log \o << Event("answer", "overwrite", "yes"),
                                        Event("emptyDir", Inspected, "yes") >>
                 \/ \E failed \in ReaddirSync(fs, Inspected) \ {".git"} :
                      \E removed \in
                          SUBSET (ReaddirSync(fs, Inspected) \ {".git", failed}) :
                        /\ fs' = emptyDirUpTo(fs, Inspected, removed)
                        /\ pc' = "threw"
                        /\ log' = log \o << Event("answer", "overwrite", "yes"),
                                            Event("emptyDir", Inspected, "yes"),
                                            Event("throw", Inspected, "fs.rmSync") >>
            [] overwrite = "no" ->
                 /\ pc' = "cancelled"
                 /\ log' = Append(log, Event("answer", "overwrite", "no"))
                 /\ UNCHANGED fs
            [] overwrite = "ignore" ->
                 /\ pc' = "resolvePackageName"
                 /\ log' = Append(log, Event("answer", "overwrite", "ignore"))
                 /\ UNCHANGED fs
  /\ UNCHANGED <<hIn, hOut, argv, env, pkgInfo, targetDir, packageName, framework, template,
                 root, files, exitCode, logged, spawned>>

\* lines 166-167: the package name from the directory's base name
ResolvePackageName ==
  /\ pc = "resolvePackageName"
  /\ packageName' = PathBasename(PathResolve(env.cwd, targetDir))
  /\ pc' = IF isValidPackageName(packageName')
           THEN "resolveTemplate" ELSE "promptPackageName"
  /\ UNCHANGED <<hIn, hOut, argv, env, fs, pkgInfo, targetDir, framework, template, root,
                 files, exitCode, logged, spawned, log>>

\* a plausible slip: the prompt's validate lets every text through
ValidatePackageName_any(value) == TRUE

\* the validate callback of the package-name prompt
ValidatePackageName(value) == isValidPackageName(value)

\* lines 168-180
PromptPackageName ==
  /\ pc = "promptPackageName"
  /\ \/ Cancel("packageName") /\ UNCHANGED packageName
     \/ \E value \in PackageNameAnswers :
          /\ ValidatePackageName(value)
          /\ packageName' = TextValue(value, toValidPackageName(packageName))
          /\ pc' = "resolveTemplate"
          /\ log' = Append(log, Event("answer", "packageName", value))
  /\ UNCHANGED <<hIn, hOut, argv, env, fs, pkgInfo, targetDir, framework, template, root,
                 files, exitCode, logged, spawned>>

\* lines 182-187: template, "" (undefined) when --template names no template
ArgTemplateOf(argTemplate) ==
  IF argTemplate # "" /\ argTemplate \notin TEMPLATES THEN "" ELSE argTemplate

\* lines 182-188
ResolveTemplate ==
  /\ pc = "resolveTemplate"
  /\ template' = ArgTemplateOf(argv.template)
  /\ pc' = IF template' = "" THEN "promptFramework" ELSE "makeRoot"
  /\ UNCHANGED <<hIn, hOut, argv, env, fs, pkgInfo, targetDir, packageName, framework, root,
                 files, exitCode, logged, spawned, log>>

\* lines 189-201
PromptFramework ==
  /\ pc = "promptFramework"
  /\ \/ Cancel("framework") /\ UNCHANGED framework
     \/ \E i \in DOMAIN FRAMEWORKS(env.delegate) :
          /\ framework' = FRAMEWORKS(env.delegate)[i].name
          /\ pc' = "promptVariant"
          /\ log' = Append(log, Event("answer", "framework", framework'))
  /\ UNCHANGED <<hIn, hOut, argv, env, fs, pkgInfo, targetDir, packageName, template, root,
                 files, exitCode, logged, spawned>>

\* lines 203-223: the options, with the hint of each customCommand, are built
\* before the select is shown
PromptVariant ==
  /\ pc = "promptVariant"
  /\ IF \E v \in VariantsOf(env.delegate, framework) :
          v.customCommand # "" /\ getFullCustomCommand(v.customCommand, pkgInfo).threw
     THEN Throw("getFullCustomCommand") /\ UNCHANGED template
     ELSE \/ Cancel("variant") /\ UNCHANGED template
          \/ \E v \in VariantsOf(env.delegate, framework) :
               /\ template' = v.name
               /\ pc' = "makeRoot"
               /\ log' = Append(log, Event("answer", "variant", v.name))
  /\ UNCHANGED <<hIn, hOut, argv, env, fs, pkgInfo, targetDir, packageName, framework, root,
                 files, exitCode, logged, spawned>>

\* lines 225-233: root, mkdirSync, and the variant's customCommand
MakeRoot ==
  /\ pc = "makeRoot"
  /\ root' = PathJoin(env.cwd, targetDir)
  /\ IF MkdirThrows(fs, root')
     THEN /\ pc' = "threw"
          /\ log' = Append(log, Event("throw", root', "fs.mkdirSync"))
          /\ UNCHANGED fs
     ELSE /\ fs' = MkdirSync(fs, root')
          /\ pc' = IF CustomCommandOf(env.delegate, template) # ""
                   THEN "delegate" ELSE "readTemplate"
          /\ log' = Append(log, Event("mkdir", root', ""))
  /\ UNCHANGED <<hIn, hOut, argv, env, pkgInfo, targetDir, packageName, framework, template,
                 files, exitCode, logged, spawned>>

\* what spawn.sync may return as status: a number, or null when the child
\* could not be started or was ended by a signal
ChildStatuses ==
  {[isNull |-> FALSE, code |-> 0], [isNull |-> FALSE, code |-> 1],
   [isNull |-> TRUE, code |-> 0]}

\* process.exit(status ?? 0)
ExitStatus(status) == IF status.isNull THEN 0 ELSE status.code

\* lines 233-244: the delegate
Delegate ==
  /\ pc = "delegate"
  /\ LET fullCustomCommand ==
           getFullCustomCommand(CustomCommandOf(env.delegate, template), pkgInfo)
     IN  IF fullCustomCommand.threw
         THEN Throw("getFullCustomCommand") /\ UNCHANGED <<spawned, exitCode>>
         ELSE \E status \in ChildStatuses :
                /\ spawned' = Append(spawned,
                                     SpawnArgv(fullCustomCommand.value, targetDir))
                /\ exitCode' = ExitStatus(status)
                /\ log' = Append(log, Event("spawn", fullCustomCommand.value,
                                            IF status.isNull THEN "null"
                                            ELSE IF status.code = 0 THEN "0" ELSE "1"))
                /\ pc' = "exited"
  /\ UNCHANGED <<hIn, hOut, argv, env, fs, pkgInfo, targetDir, packageName,
                 framework, template, root, files, logged>>

\* lines 246-264: the entries of the template directory, package.json left
\* out. Only template-vue is known to exist; fs.readdirSync throws when the
\* directory of another template is missing.
ReadTemplate ==
  /\ pc = "readTemplate"
  /\ \/ /\ files' = SelectSeq(TemplateEntries, LAMBDA f : f # "package.json")
        /\ pc' = "copy"
        /\ UNCHANGED log
     \/ /\ template # "vue"
        /\ Throw("fs.readdirSync")
        /\ UNCHANGED files
  /\ UNCHANGED <<hIn, hOut, argv, env, fs, pkgInfo, targetDir, packageName, framework,
                 template, root, exitCode, logged, spawned>>

\* the paths of the template below (and with) its entry file
TreeOf(file) ==
  {p \in DOMAIN TemplateTree : p = file \/ StartsWith(p, file \o "/")}

\* where copy(path.join(templateDir, file), targetPath) puts template path p
CopyDest(targetPath, file, p) == targetPath \o Drop(p, Len(file))

\* copy / copyDir throw when a directory is to be made where a file is, or a
\* file copied where a directory is
CopyThrows(f, targetPath, file) ==
  \E p \in TreeOf(file) :
    /\ ExistsSync(f, CopyDest(targetPath, file, p))
    /\ f[CopyDest(targetPath, file, p)].kind # TemplateTree[p]

\* copy(src, dest) run to its end
copy(f, targetPath, file) ==
  LET dests == {CopyDest(targetPath, file, p) : p \in TreeOf(file)}
      from(d) == CHOOSE p \in TreeOf(file) : CopyDest(targetPath, file, p) = d
  IN  [k \in DOMAIN f \cup dests |->
         IF k \in dests
         THEN (IF TemplateTree[from(k)] = "dir" THEN DirNode
               ELSE FileNode("template-" \o template \o "/" \o from(k)))
         ELSE f[k]]

\* lines 254-266: write(file) for the next entry of the loop
CopyFile ==
  /\ pc = "copy"
  /\ files # <<>>
  /\ LET file == Head(files)
         targetPath == PathJoin(root, renameFiles(file))
     IN  IF CopyThrows(fs, targetPath, file)
         THEN /\ pc' = "threw"
              /\ log' = Append(log, Event("throw", targetPath, "copy"))
              /\ UNCHANGED <<fs, files>>
         ELSE /\ fs' = copy(fs, targetPath, file)
              /\ files' = Tail(files)
              /\ pc' = "copy"
              /\ log' = Append(log, Event("copy", targetPath, file))
  /\ UNCHANGED <<hIn, hOut, argv, env, pkgInfo, targetDir, packageName, framework, template,
                 root, exitCode, logged, spawned>>

\* lines 268-274: the template's package.json parsed, renamed, written. The
\* file's text is not part of the program: JSON.parse may throw on it.
WritePackageJson ==
  /\ pc = "copy"
  /\ files = <<>>
  /\ LET targetPath == PathJoin(root, renameFiles("package.json"))
     IN  \/ Throw("JSON.parse") /\ UNCHANGED fs
         \/ IF WriteFileThrows(fs, targetPath)
            THEN /\ pc' = "threw"
                 /\ log' = Append(log, Event("throw", targetPath, "fs.writeFileSync"))
                 /\ UNCHANGED fs
            ELSE /\ fs' = WriteFile(fs, targetPath, JsonNode(packageName))
                 /\ pc' = "outro"
                 /\ log' = Append(log, Event("writeFile", targetPath, packageName))
  /\ UNCHANGED <<hIn, hOut, argv, env, pkgInfo, targetDir, packageName, framework, template,
                 root, files, exitCode, logged, spawned>>

\* lines 276-295: the closing message; init() returns
Outro ==
  /\ pc = "outro"
  /\ pc' = "done"
  /\ log' = Append(log, Event("outro", root, PkgManagerOf(pkgInfo)))
  /\ UNCHANGED <<hIn, hOut, argv, env, fs, pkgInfo, targetDir, packageName, framework,
                 template, root, files, exitCode, logged, spawned>>

\* lines 399-401: init().catch((e) => { console.error(e) }); the rejection is
\* handled, and the process ends as after a run that went well
TopLevelCatch ==
  /\ pc = "threw"
  /\ logged' = Append(logged, log[Len(log)].info)
  /\ pc' = "failed"
  /\ UNCHANGED <<hIn, hOut, argv, env, fs, pkgInfo, targetDir, packageName, framework,
                 template, root, files, exitCode, spawned, log>>

Next ==
  \/ Start
  \/ PromptProjectName
  \/ ResolveConflict
  \/ PromptOverwrite
  \/ ResolvePackageName
  \/ PromptPackageName
  \/ ResolveTemplate
  \/ PromptFramework
  \/ PromptVariant
  \/ MakeRoot
  \/ Delegate
  \/ ReadTemplate
  \/ CopyFile
  \/ WritePackageJson
  \/ Outro
  \/ TopLevelCatch

-----------------------------------------------------------------------------
(* Specifications                                                          *)

FormatNext == FormatCall

\* one run of init() from every command line, environment and file system of Init
Spec == Init /\ [][Next]_vars

\* formatTargetDir applied once and twice to every string of DirAlphabet
SpecFormat == FormatInit /\ [][FormatNext]_vars

PackageNext ==
  \/ IsValidCall
  \/ ToValidCall
  \/ IsValidOfToValidCall

\* isValidPackageName and toValidPackageName on every string of NameAlphabet
SpecPackage == PackageInit /\ [][PackageNext]_vars

UserAgentNext ==
  \/ ResolveCall
  \/ FullCommandCall

SpecUserAgent == UserAgentInit /\ [][UserAgentNext]_vars

EmptyDirNext ==
  \/ EmptyDirCall
  \/ IsEmptyCall

SpecEmptyDir == EmptyDirInit /\ [][EmptyDirNext]_vars

CommandNext ==
  \/ RewriteCall
  \/ SubstituteCall

\* getFullCustomCommand and the TARGET_DIR substitution on every command of
\* Commands, every package manager of PkgInfos and every directory of TargetDirs
SpecCommand == CommandInit /\ [][CommandNext]_vars

-----------------------------------------------------------------------------
(* Claims                                                                  *)

\* C1: formatTargetDir is idempotent, formatTargetDir(formatTargetDir(s)) =
\* formatTargetDir(s) for every s, and its result never ends in a path
\* separator.
C1_FormatIdempotent ==
  /\ Len(hOut) >= 1 => ~EndsWith(hOut[1], "/")
  /\ Len(hOut) = 2 => hOut[2] = hOut[1]

\* the part of C1 that the code keeps: no result ends in a path separator
FormatNoTrailingSlash ==
  \A i \in 1..Len(hOut) : ~EndsWith(hOut[i], "/")

\* C8: for every input r, if toValidPackageName(r) is not empty then
\* isValidPackageName(toValidPackageName(r)) is true.
C8_ToValidIsValid ==
  (hOut.called = "isValidPackageName(toValidPackageName)" /\ hOut.name # "")
    => hOut.valid

\* an invalid name that toValidPackageName turned into a valid, non-empty one
C8_Witness ==
  /\ hOut.called = "isValidPackageName(toValidPackageName)"
  /\ ~isValidPackageName(hIn)
  /\ hOut.name # ""
  /\ hOut.name # hIn
  /\ hOut.valid

\* the grammar as C9 states it: scope and name are built alike
StatedFirst == Lower \cup Digit \cup {"-", "~"}

StatedRest == Lower \cup Digit \cup {"-", ".", "_", "~"}

StatedPart(n) ==
  /\ n # ""
  /\ Ch(n, 1) \in StatedFirst
  /\ \A i \in 2..Len(n) : Ch(n, i) \in StatedRest

\* the scope as the code has it: '*' is a scope character too
AmendedScope(n) ==
  /\ n # ""
  /\ Ch(n, 1) \in StatedFirst \cup {"*"}
  /\ \A i \in 2..Len(n) : Ch(n, i) \in StatedRest \cup {"*"}

\* name, or '@' scope '/' name
Grammar(s, Scope(_)) ==
  \/ StatedPart(s)
  \/ \E i \in 2..Len(s) :
       /\ Ch(s, 1) = "@"
       /\ Ch(s, i) = "/"
       /\ Scope(SubSeq(s, 2, i - 1))
       /\ StatedPart(Drop(s, i))

\* C9 as stated: isValidPackageName accepts exactly an optional '@scope/' and
\* a name, scope and name each starting with a lowercase letter, a digit, '-'
\* or '~' and continuing with lowercase letters, digits, '-', '.', '_', '~'.
C9_StatedGrammar ==
  hOut.called = "isValidPackageName" => (hOut.valid <=> Grammar(hIn, StatedPart))

\* C9 as amended: as stated, but the scope may also start with and contain '*'.
C9_AmendedGrammar ==
  hOut.called = "isValidPackageName" => (hOut.valid <=> Grammar(hIn, AmendedScope))

\* a scoped name is accepted, its scope holding a '*'
C9_Witness ==
  /\ hOut.called = "isValidPackageName"
  /\ StartsWith(hIn, "@*")
  /\ hOut.valid

\* s with every occurrence of pat replaced by rep, left to right, the text
\* put in never searched again
RECURSIVE ReplaceAll(_, _, _)
ReplaceAll(s, pat, rep) ==
  LET i == IndexOf(s, pat)
  IN  IF i = 0 THEN s
      ELSE Take(s, i - 1) \o rep \o ReplaceAll(Drop(s, i - 1 + Len(pat)), pat, rep)

\* the rewrite rules as C10 states them, on the words of the generic command:
\* the words the child process is to be started with
RuleArgv(customCommand, info, dir) ==
  LET manager == IF info.defined THEN info.name ELSE "npm"
      version == Split(info.version, ".")
      yarn1 == manager = "yarn" /\ Len(version) >= 2 /\ version[1] = "1"
      words == Split(customCommand, " ")
      create == words[2] = "create"
      separator == create /\ words[3] = "--"
      given == SubSeq(words, IF separator THEN 4 ELSE 3, Len(words))
      untagged == [i \in DOMAIN given |->
                     IF yarn1 THEN ReplaceAll(given[i], "@latest", "") ELSE given[i]]
      head == IF create
              THEN (IF manager = "bun" THEN <<"bun", "x", "create-" \o untagged[1]>>
                    ELSE IF manager = "pnpm" THEN <<"pnpm", "create", untagged[1]>>
                    ELSE IF separator THEN <<manager, "create", "--", untagged[1]>>
                    ELSE <<manager, "create", untagged[1]>>)
              ELSE (IF manager = "pnpm" THEN <<"pnpm", "dlx", untagged[1]>>
                    ELSE IF manager = "yarn" /\ ~yarn1 THEN <<"yarn", "dlx", untagged[1]>>
                    ELSE IF manager = "bun" THEN <<"bun", "x", untagged[1]>>
                    ELSE <<"npm", "exec", untagged[1]>>)
      all == head \o Tail(untagged)
  IN  [i \in DOMAIN all |->
         IF i = 1 THEN all[1] ELSE ReplaceAll(all[i], "TARGET_DIR", dir)]

\* C10: for every generic command 'npm create ...' or 'npm exec ...' and every
\* package manager, getFullCustomCommand followed by the TARGET_DIR
\* substitution gives what the rewrite rules give: the create prefix per
\* manager, '@latest' removed only for yarn 1.x, 'npm exec' per manager, and
\* TARGET_DIR in the arguments replaced by the target directory.
C10_RewriteRules ==
  hOut.called = "substituted"
    => hOut.argv = RuleArgv(hIn.customCommand, hIn.info, hIn.dir)

\* the number of occurrences of pat in s
RECURSIVE Occurrences(_, _)
Occurrences(s, pat) ==
  LET i == IndexOf(s, pat)
  IN  IF i = 0 THEN 0 ELSE 1 + Occurrences(Drop(s, i - 1 + Len(pat)), pat)

\* what the code keeps of C10: the rules hold of every command that holds
\* '@latest' at most once and TARGET_DIR at most once in each argument
RewriteRulesOfSingleOccurrences ==
  (/\ hOut.called = "substituted"
   /\ Occurrences(hIn.customCommand, "@latest") <= 1
   /\ \A w \in {Split(hIn.customCommand, " ")[i] :
                  i \in DOMAIN Split(hIn.customCommand, " ")} :
        Occurrences(w, "TARGET_DIR") <= 1)
    => hOut.argv = RuleArgv(hIn.customCommand, hIn.info, hIn.dir)

-----------------------------------------------------------------------------
(* Claims about init()                                                     *)

\* the places of the events of the log that satisfy Is
Events(Is(_)) == {i \in DOMAIN log : Is(log[i])}

\* the materializer's writes: mkdirSync(root), copy, writeFileSync
IsWrite(e) == e.op \in {"mkdir", "copy", "writeFile"}

IsClassify(e) == e.op = "classify"

\* the permission the conflict resolver gave before event i: the directory
\* was Absent or Empty, or it was cleared, or the user chose to ignore
Granted(i) ==
  \E j \in 1..(i - 1) :
    \/ log[j].op = "classify" /\ log[j].info \in {"Absent", "Empty"}
    \/ log[j].op = "emptyDir"
    \/ log[j] = Event("answer", "overwrite", "ignore")

\* C2: the directory the materializer creates and writes into is the one the
\* conflict resolver inspected, for a relative and for an absolute target
\* directory, and nothing is written into it before it was classified Absent
\* or Empty, cleared, or accepted as it is.
C2_WritesWhereInspected ==
  \A i \in Events(IsWrite) :
    /\ Granted(i)
    /\ \A j \in Events(IsClassify) : IsUnder(log[i].path, log[j].path)

\* what the code keeps of C2: a relative target directory
WritesWhereInspectedIfRelative ==
  ~StartsWith(targetDir, "/") =>
    \A i \in Events(IsWrite) :
      /\ Granted(i)
      /\ \A j \in Events(IsClassify) : IsUnder(log[i].path, log[j].path)

\* a prompt returned the cancellation signal, or the conflict prompt 'no'
IsCancellation(e) == e.op = "cancel" \/ e = Event("answer", "overwrite", "no")

\* C3: when a prompt returns the cancellation signal, or the user picks the
\* cancel option of the conflict prompt, init is in the cancelled state, and
\* from that state on nothing is created, deleted, copied, written or spawned.
C3_CancelIsTerminal ==
  /\ [](\A i \in Events(IsCancellation) : pc = "cancelled" /\ i = Len(log))
  /\ [][pc = "cancelled" => (pc' = pc /\ fs' = fs /\ spawned' = spawned /\ log' = log)]_vars

\* cancelled at the variant prompt, after the target directory was cleared
C3_Witness ==
  /\ pc = "cancelled"
  /\ log # <<>>
  /\ log[Len(log)] = Event("cancel", "variant", "")
  /\ \E i \in DOMAIN log : log[i].op = "emptyDir"

\* an environment-fatal error: an exception that left init(), or a child
\* process that could not be started
IsFatal(e) == e.op = "throw" \/ (e.op = "spawn" /\ e.info = "null")

\* C4: an environment-fatal error is logged and the process ends with a
\* failure status, not with 0.
C4_FatalExitsNonZero ==
  (pc \in {"failed", "exited"} /\ Events(IsFatal) # {})
    => (logged # <<>> /\ exitCode # 0)

\* what the code keeps of C4: an exception that leaves init() is logged
FatalThrowIsLogged ==
  pc = "failed" => (logged # <<>> /\ \E i \in DOMAIN log : log[i].op = "throw")

IsNonEmpty(e) == e.op = "classify" /\ e.info = "NonEmpty"

IsConflictPrompt(e) == e.op \in {"answer", "cancel"} /\ e.path = "overwrite"

\* C5: with a NonEmpty target directory and --overwrite, the conflict prompt
\* is not asked, and when the first materialization write happens every entry
\* of the target directory but .git is gone.
C5_OverwriteClearsFirst ==
  [][(argv.overwrite /\ Events(IsNonEmpty) # {}) =>
       /\ pc' # "promptOverwrite"
       /\ \A i \in DOMAIN log' : ~IsConflictPrompt(log'[i])
       /\ (Events(IsWrite) = {} /\ \E i \in DOMAIN log' : IsWrite(log'[i]))
            => ReaddirSync(fs, Inspected) \subseteq {".git"}]_vars

\* --overwrite on a directory that held .git and more: the first write is done
\* and .git is still there
C5_Witness ==
  /\ argv.overwrite
  /\ Events(IsNonEmpty) # {}
  /\ Events(IsWrite) # {}
  /\ \E i \in DOMAIN log : log[i].op = "emptyDir" /\ log[i].info = "--overwrite"
  /\ ReaddirSync(fs, Inspected) # {}
  /\ ExistsSync(fs, PathResolve(Inspected, ".git/HEAD"))

\* template resolution has ended: init() is at, or went past, line 225
Resolved == pc = "makeRoot" \/ root # ""

\* C6: from the end of template resolution on, the package name satisfies
\* isValidPackageName and the template is one of TEMPLATES; the name field of
\* the package.json written is that package name.
C6_ResolvedAreValid ==
  Resolved =>
    /\ isValidPackageName(packageName)
    /\ template \in TEMPLATES
    /\ \A i \in DOMAIN log :
         log[i].op = "writeFile" =>
           /\ log[i].path = PathJoin(root, "package.json")
           /\ fs[log[i].path] = JsonNode(packageName)

\* a run that asked for the package name and for the template, and wrote
\* package.json
C6_Witness ==
  /\ pc = "done"
  /\ Event("answer", "packageName", "@scope/my-app") \in {log[i] : i \in DOMAIN log}
  /\ Event("answer", "variant", "react-ts") \in {log[i] : i \in DOMAIN log}
  /\ argv.template = "svelte"
  /\ \E i \in DOMAIN log : log[i].op = "writeFile"
  /\ packageName = "@scope/my-app"

\* init() went past the test of customCommand at line 233
PastVariantKind ==
  pc \in {"delegate", "readTemplate", "copy", "outro", "exited"}
    \/ (pc \in {"done", "threw", "failed"} /\ Events(LAMBDA e : e.op = "mkdir") # {})

\* the run has ended
Ended == pc \in {"done", "cancelled", "failed", "exited"}

\* C7: when the resolved variant has a delegate command, init spawns exactly
\* one child process with the rewritten command, copies no template file,
\* writes no package.json and ends with the child's status (0 when there is
\* none); when it has none, no child process is spawned.
C7_DelegateSpawnsOnce ==
  /\ (Ended /\ PastVariantKind /\ CustomCommandOf(env.delegate, template) # "") =>
       /\ Len(spawned) = 1
       /\ spawned[1] = RuleArgv(CustomCommandOf(env.delegate, template), pkgInfo,
                                targetDir)
       /\ pc = "exited"
       /\ Events(LAMBDA e : e.op \in {"copy", "writeFile"}) = {}
       /\ \E i \in DOMAIN log :
            /\ log[i].op = "spawn"
            /\ exitCode = (IF log[i].info = "1" THEN 1 ELSE 0)
  /\ (~PastVariantKind \/ CustomCommandOf(env.delegate, template) = "") =>
       spawned = <<>>

\* what the code keeps of C7: the same, for the runs in which
\* getFullCustomCommand returns
DelegateSpawnsOnceUnlessRewriteThrows ==
  ~IsYarn1Throws(pkgInfo) => C7_DelegateSpawnsOnce

-----------------------------------------------------------------------------
(* Claims about emptyDir and isEmpty                                       *)

\* the version-control metadata entry of dir
GitOf(dir) == dir \o "/.git"

\* f, with everything below dir taken away but dir/.git and what it holds
Cleared(f, dir) ==
  [p \in {q \in DOMAIN f : q = dir \/ ~IsUnder(q, dir) \/ IsUnder(q, GitOf(dir))}
     |-> f[p]]

\* dir has, in f, no entry of its own other than .git
HoldsAtMostGit(f, dir) ==
  \A q \in DOMAIN f : (q # dir /\ PathDirname(q) = dir) => q = GitOf(dir)

IsDirectory(f, dir) == ExistsSync(f, dir) /\ f[dir].kind = "dir"

Calls(op) == {i \in DOMAIN hOut : hOut[i].op = op}

\* C11: emptyDir(path) on a directory removes every top-level entry but .git,
\* which stays with its contents untouched, touches nothing outside path,
\* and leaves isEmpty(path) true; on a path that does not exist it changes
\* nothing and does not throw; a second emptyDir leaves what the first left;
\* isEmpty is true exactly when the directory has no entry or only .git.
C11_EmptyDirClears ==
  /\ \A i \in Calls("emptyDir") :
       LET c == hOut[i]
       IN  /\ ~ExistsSync(c.before, hIn) => (~c.threw /\ c.after = c.before)
           /\ (IsDirectory(c.before, hIn) /\ ~c.threw) =>
                /\ c.after = Cleared(c.before, hIn)
                /\ HoldsAtMostGit(c.after, hIn)
                /\ isEmpty(ReaddirSync(c.after, hIn))
                /\ (i + 1 \in Calls("isEmpty")) =>
                     (~hOut[i + 1].threw /\ hOut[i + 1].result)
                /\ (i + 1 \in Calls("emptyDir") /\ ~hOut[i + 1].threw) =>
                     hOut[i + 1].after = c.after
  /\ \A i \in Calls("isEmpty") :
       IsDirectory(hOut[i].before, hIn) =>
         /\ ~hOut[i].threw
         /\ hOut[i].result = HoldsAtMostGit(hOut[i].before, hIn)

\* emptyDir, called twice, on a directory that held .git/HEAD, .gitignore and
\* src/b.js: the first call removed entries and kept .git/HEAD
C11_Witness ==
  /\ hIn = "/d"
  /\ Len(hOut) >= 2
  /\ hOut[1].op = "emptyDir" /\ ~hOut[1].threw
  /\ hOut[2].op = "emptyDir" /\ ~hOut[2].threw
  /\ {"/d/.git/HEAD", "/d/.gitignore", "/d/src/b.js"} \subseteq DOMAIN hOut[1].before
  /\ "/d/.git/HEAD" \in DOMAIN fs
  /\ "/d/.gitignore" \notin DOMAIN fs

\* emptyDir on a path that does not exist
EmptyDirOfMissing ==
  \E i \in Calls("emptyDir") : ~ExistsSync(hOut[i].before, hIn)

-----------------------------------------------------------------------------
(* Claims about pkgFromUserAgent                                           *)

\* the first token of a user agent, up to its first white space
FirstToken(userAgent) ==
  LET i == IndexOf(userAgent, " ")
  IN  IF i = 0 THEN userAgent ELSE Take(userAgent, i - 1)

Resolved12 == hOut.called # "none"

\* pkgFromUserAgent returns nothing exactly when the user agent is empty
ResolvesNothingIffEmpty ==
  Resolved12 => (hOut.info.defined <=> hIn.userAgent # "")

\* what is returned has the name that stands before the first '/' of the
\* first token
ResolvesNameOfFirstToken ==
  (Resolved12 /\ hOut.info.defined) =>
    LET token == FirstToken(hIn.userAgent)
        i == IndexOf(token, "/")
    IN  hOut.info.name = IF i = 0 THEN token ELSE Take(token, i - 1)

\* C12: pkgFromUserAgent returns nothing exactly when the user agent is empty
\* or absent; otherwise it returns a name and a version that are both defined
\* strings, taken from the first token split on '/', and getFullCustomCommand
\* on the result completes without an error.
C12_ResolvedIsComplete ==
  /\ ResolvesNothingIffEmpty
  /\ ResolvesNameOfFirstToken
  /\ (Resolved12 /\ hOut.info.defined) => hOut.info.hasVersion
  /\ hOut.called # "threw"

\* the version is defined, and the rewrite completes, when the first token
\* has a '/'
ResolvedIsCompleteWithSlash ==
  (Resolved12 /\ IndexOf(FirstToken(hIn.userAgent), "/") # 0) =>
    /\ hOut.info.defined /\ hOut.info.hasVersion
    /\ hOut.called # "threw"

\* the rewrite throws exactly on yarn without a version
ThrowsOnYarnWithoutVersion ==
  hOut.called \in {"threw", "getFullCustomCommand"} =>
    (hOut.called = "threw" <=>
       (hOut.info.name = "yarn" /\ ~hOut.info.hasVersion))

=============================================================================
